---- MODULE Spec2Model ----
(***************************************************************************)
(* Model of the oops-i-forgot-to-log-my-hours command of debugged/deb:     *)
(* the per-repository commit aggregation, the parallel fleet that runs it  *)
(* (semaphore, mutex, wait group, error channel) and the pretty renderer.  *)
(*                                                                         *)
(* Go strings are modelled as tuples of one-character strings, so that     *)
(* slicing, byte-wise comparison, case folding and parsing are computed.   *)
(***************************************************************************)
EXTENDS Integers, Sequences, FiniteSets, TLC

\* ------------------------------------------------------------------------
\* Bounds of the model
\* ------------------------------------------------------------------------
MaxBranches == 2    \* branches of a repository drawn for the aggregator
MaxFetched == 3     \* commits git log lists, over all the branches drawn
MaxRepos == 2       \* repositories whose results are rendered
NumRepos == 3       \* repositories the walk finds
FleetExtra == 1     \* repositories beyond the capacity of sem, in the counted fleet

\* ------------------------------------------------------------------------
\* Strings
\* ------------------------------------------------------------------------
\* The characters used, in ascending byte order.
ByteOrder ==
  <<" ","+","-",".","0","1","2","3","4","5","6","7","8","9",":","@",
    "A","B","T","X","Z","_",
    "a","b","c","d","e","f","g","h","i","j","k","l","m","n","o","p","q","r",
    "s","t","u","v","w","x","y","z">>

Byte(c) == CHOOSE i \in 1..Len(ByteOrder) : ByteOrder[i] = c

Digits == <<"0","1","2","3","4","5","6","7","8","9">>

IsDigit(c) == \E i \in 1..10 : Digits[i] = c

DigitVal(c) == (CHOOSE i \in 1..10 : Digits[i] = c) - 1

Min(a, b) == IF a < b THEN a ELSE b

\* Go's s < t on strings: byte-wise lexicographic order.
StrLess(s, t) ==
  \E i \in 1..(Min(Len(s), Len(t)) + 1) :
     /\ \A j \in 1..(i - 1) : s[j] = t[j]
     /\ \/ i > Len(s) /\ i <= Len(t)
        \/ i <= Len(s) /\ i <= Len(t) /\ Byte(s[i]) < Byte(t[i])

\* s[:n]
Prefix(s, n) == SubSeq(s, 1, n)

UpperCase == <<"A","B","T","X","Z">>
LowerCase == <<"a","b","t","x","z">>

\* simple case folding of one character
Fold(c) ==
  IF \E i \in 1..Len(UpperCase) : UpperCase[i] = c
    THEN LowerCase[CHOOSE i \in 1..Len(UpperCase) : UpperCase[i] = c]
    ELSE c

\* a comparison that tells upper case from lower case
EqualExact(s, t) == s = t

\* strings.EqualFold
EqualFold(s, t) ==
  /\ Len(s) = Len(t)
  /\ \A i \in 1..Len(s) : Fold(s[i]) = Fold(t[i])

\* decimal value of the digits s[a..b]; -1 when one of them is no digit
Atoi(s, a, b) ==
  IF \E i \in a..b : ~IsDigit(s[i]) THEN -1
  ELSE IF b - a = 3
    THEN 1000 * DigitVal(s[a]) + 100 * DigitVal(s[a + 1])
         + 10 * DigitVal(s[a + 2]) + DigitVal(s[a + 3])
    ELSE 10 * DigitVal(s[a]) + DigitVal(s[a + 1])

\* n written with two (four) digits, zero padded
Pad2(n) == <<Digits[((n \div 10) % 10) + 1], Digits[(n % 10) + 1]>>

Pad4(n) ==
  <<Digits[((n \div 1000) % 10) + 1], Digits[((n \div 100) % 10) + 1]>> \o Pad2(n % 100)

IsLeap(y) == (y % 4 = 0 /\ y % 100 # 0) \/ y % 400 = 0

DaysIn(y, m) ==
  IF m = 2 THEN (IF IsLeap(y) THEN 29 ELSE 28)
  ELSE IF m \in {4, 6, 9, 11} THEN 30 ELSE 31

\* ------------------------------------------------------------------------
\* Time parsing
\* ------------------------------------------------------------------------
NoTime == [ok |-> FALSE, year |-> 0, month |-> 0, day |-> 0, sec |-> 0]

\* time.Parse("2006-01-02T15:04:05", s) on a 19-character string: the naive
\* wall clock, as date fields and the second of the day.
ParseLocal19(s) ==
  IF Len(s) # 19 THEN NoTime
  ELSE LET y  == Atoi(s, 1, 4)
           mo == Atoi(s, 6, 7)
           d  == Atoi(s, 9, 10)
           h  == Atoi(s, 12, 13)
           mi == Atoi(s, 15, 16)
           se == Atoi(s, 18, 19)
       IN IF /\ s[5] = "-" /\ s[8] = "-" /\ s[11] = "T"
             /\ s[14] = ":" /\ s[17] = ":"
             /\ y >= 0 /\ mo \in 1..12 /\ d >= 1 /\ d <= DaysIn(y, mo)
             /\ h \in 0..23 /\ mi \in 0..59 /\ se \in 0..59
          THEN [ok |-> TRUE, year |-> y, month |-> mo, day |-> d,
                sec |-> 3600 * h + 60 * mi + se]
          ELSE NoTime

\* the zone of an RFC 3339 timestamp: "Z" or a numeric offset +hh:mm / -hh:mm
IsZone(z) ==
  \/ z = <<"Z">>
  \/ /\ Len(z) = 6
     /\ z[1] \in {"+", "-"}
     /\ z[4] = ":"
     /\ Atoi(z, 2, 3) \in 0..23
     /\ Atoi(z, 5, 6) \in 0..59

\* time.Parse(time.RFC3339, iso): the time keeps the offset it was written
\* with, so its date fields are the ones that were parsed.
ParseRFC3339(iso) ==
  IF Len(iso) < 20 THEN NoTime
  ELSE IF IsZone(SubSeq(iso, 20, Len(iso))) THEN ParseLocal19(Prefix(iso, 19))
  ELSE NoTime

\* t.Format("2006-01-02")
FormatDate(t) == Pad4(t.year) \o <<"-">> \o Pad2(t.month) \o <<"-">> \o Pad2(t.day)

extractDateKey(iso) ==
  IF ParseRFC3339(iso).ok THEN FormatDate(ParseRFC3339(iso))
  ELSE IF Len(iso) >= 10 THEN Prefix(iso, 10)
  ELSE <<>>

parseCommitLocalClock(iso) ==
  IF Len(iso) < 19 THEN NoTime ELSE ParseLocal19(Prefix(iso, 19))

\* ------------------------------------------------------------------------
\* Commits
\* ------------------------------------------------------------------------
AddrLower == <<"a","@","x">>
AddrUpper == <<"A","@","X">>
AddrOther == <<"b","@","x">>

Date0900 == <<"2","0","2","5","-","0","2","-","0","3","T","0","9",":","0","0",":","0","0","+","0","0",":","0","0">>
Date0945 == <<"2","0","2","5","-","0","2","-","0","3","T","0","9",":","4","5",":","0","0","+","0","0",":","0","0">>
DateNext == <<"2","0","2","5","-","0","2","-","0","4","T","0","8",":","0","0",":","0","0","+","0","1",":","0","0">>
DateZone == <<"2","0","2","5","-","0","2","-","0","3","T","1","0",":","0","0",":","0","0","+","0","1",":","0","0">>
DateShort == <<"g","a","r","b","a","g","e">>
DateLoose == <<"y","e","s","t","e","r","d","a","y"," ","a","t"," ","9">>

Hash1 == <<"a","a","a","a","a","a","a","1">>
Hash2 == <<"a","a","a","a","a","a","a","2">>
Hash3 == <<"b","b","b","b","b","b","b","3">>
Hash4 == <<"c","c","c","c","c","c","c","4">>
Hash5 == <<"d","d","d","d","d","d","d","5">>
Hash6 == <<"e","e","e","e","e","e","e","6">>
Hash7 == <<"f","f","f","f","f","f","f","7">>
Hash8 == <<"g","g","g","g","g","g","g","8">>

\* type Commit
Commit(h, e, d, m) ==
  [Hash |-> h, AuthorEmail |-> e, Date |-> d, Message |-> m]

FixBug == Commit(Hash1, AddrLower, Date0900, "fix bug")
AddTest == Commit(Hash2, AddrUpper, Date0945, "add test")
TheirWork == Commit(Hash3, AddrOther, Date0900, "their work")
SameSecond == Commit(Hash4, AddrLower, Date0900, "same second")
NextDay == Commit(Hash5, AddrLower, DateNext, "next day")
NoDate == Commit(Hash6, AddrLower, DateShort, "no date")
LooseDate == Commit(Hash7, AddrLower, DateLoose, "loose date")
OtherZone == Commit(Hash8, AddrLower, DateZone, "other zone")

\* The commits that exist; a hash names one commit.
AllCommits == {FixBug, AddTest, TheirWork, SameSecond, NextDay, NoDate, LooseDate}

Hashes == { c.Hash : c \in AllCommits }

\* the order git log lists a branch's commits in
LogRank(c) == Byte(c.Hash[8])

\* The possible outputs of git log for one branch: up to MaxFetched commits.
RECURSIVE LogOf(_)
LogOf(S) ==
  IF S = {} THEN <<>>
  ELSE LET c == CHOOSE x \in S : \A y \in S : LogRank(x) <= LogRank(y)
       IN <<c>> \o LogOf(S \ {c})

Logs == { LogOf(S) : S \in { T \in SUBSET AllCommits : Cardinality(T) <= MaxFetched } }

\* ------------------------------------------------------------------------
\* Repository Aggregator
\* ------------------------------------------------------------------------
\* Folding one branch's commits into commitMap (a function from hashes to
\* commits): matching author, first occurrence of a hash wins.
RECURSIVE FoldCommits(_, _, _)
FoldCommits(commitMap, commits, email) ==
  IF commits = <<>> THEN commitMap
  ELSE LET c == Head(commits)
           next == IF EqualFold(c.AuthorEmail, email) /\ c.Hash \notin DOMAIN commitMap
                     THEN [h \in (DOMAIN commitMap) \cup {c.Hash} |->
                             IF h = c.Hash THEN c ELSE commitMap[h]]
                     ELSE commitMap
       IN FoldCommits(next, Tail(commits), email)

EmptyMap == [h \in {} |-> h]

Values(m) == { m[k] : k \in DOMAIN m }

\* every order in which a set can be listed
RECURSIVE Orders(_)
Orders(S) ==
  IF S = {} THEN { <<>> }
  ELSE UNION { { <<x>> \o p : p \in Orders(S \ {x}) } : x \in S }

\* what sort.Slice(list, less) can leave: an arrangement of the same elements
\* in which no element is less than one before it (the sort is not stable)
SortedByDate(p) == \A i, j \in DOMAIN p : i < j => ~StrLess(p[j].Date, p[i].Date)

\* a bucket left in the order the map was ranged over
LeftAsRanged(list) == { list }

SortSliceByDate(list) ==
  { p \in Orders({ list[i] : i \in DOMAIN list }) : SortedByDate(p) }

\* the commits of commitMap that are dropped with a warning
Dropped(commitMap) == { c \in Values(commitMap) : extractDateKey(c.Date) = <<>> }

DateKeys(commitMap) ==
  { extractDateKey(c.Date) : c \in Values(commitMap) \ Dropped(commitMap) }

\* The commitsByDate maps the bucketing and sorting of commitMap can produce:
\* the map is ranged over in an arbitrary order, then each bucket is sorted.
BucketLists(commitMap, k) ==
  UNION { SortSliceByDate(l) :
            l \in Orders({ c \in Values(commitMap) : extractDateKey(c.Date) = k }) }

RECURSIVE MapsOver(_, _)
MapsOver(commitMap, keys) ==
  IF keys = {} THEN { EmptyMap }
  ELSE LET k == CHOOSE x \in keys : TRUE
       IN { [d \in (DOMAIN f) \cup {k} |-> IF d = k THEN l ELSE f[d]] :
              f \in MapsOver(commitMap, keys \ {k}), l \in BucketLists(commitMap, k) }

CommitsByDateOf(commitMap) == MapsOver(commitMap, DateKeys(commitMap))

\* the fold over all branches of a repository
RECURSIVE FoldBranches(_, _, _)
FoldBranches(commitMap, logs, email) ==
  IF logs = <<>> THEN commitMap
  ELSE FoldBranches(FoldCommits(commitMap, Head(logs), email), Tail(logs), email)

Concat(a, b) == a \o b

RECURSIVE Flatten(_)
Flatten(logs) == IF logs = <<>> THEN <<>> ELSE Concat(Head(logs), Flatten(Tail(logs)))

\* A variant that collects matching commits in a list, one entry per branch
\* they are reachable from.
RepoCommitsByDateNoDedup(logs, email) ==
  LET all == SelectSeq(Flatten(logs), LAMBDA c : EqualFold(c.AuthorEmail, email))
      keys == { extractDateKey(all[i].Date) : i \in DOMAIN all } \ { <<>> }
  IN { [k \in keys |-> SelectSeq(all, LAMBDA c : extractDateKey(c.Date) = k)] }

\* The commitsByDate maps a worker can build for a repository whose branches
\* have the logs given and whose user.email is email.
RepoCommitsByDate(logs, email) ==
  CommitsByDateOf(FoldBranches(EmptyMap, logs, email))

\* ------------------------------------------------------------------------
\* Repositories and results
\* ------------------------------------------------------------------------
NameProj == <<"p","r","o","j">>
NameLib == <<"l","i","b">>

\* A path is the tuple of its segments.  Two of the repositories that can be
\* discovered have the same last segment.
PathWProj == << <<"w">>, NameProj >>
PathWLib == << <<"w">>, NameLib >>
PathVProj == << <<"v">>, NameProj >>
PathVLib == << <<"v">>, NameLib >>

\* filepath.Base(filepath.Clean(repoPath))
Base(path) == path[Len(path)]

\* type RepoResult
RepoResult(path, cbd) == [Path |-> path, Name |-> Base(path), CommitsByDate |-> cbd]

\* ------------------------------------------------------------------------
\* printPretty
\* ------------------------------------------------------------------------
\* type ChangelogEntry
ChangelogEntry(date, repo, c) ==
  [DateKey |-> date, RepoName |-> repo.Name, RepoPath |-> repo.Path, Commit |-> c]

\* dateMap[date]: the entries of the day, repository after repository in the
\* order of results, each repository's commits in the order of its bucket
RECURSIVE DateMapAt(_, _)
DateMapAt(results, date) ==
  IF results = <<>> THEN <<>>
  ELSE LET repo == Head(results)
           own == IF date \in DOMAIN repo.CommitsByDate
                    THEN [i \in DOMAIN repo.CommitsByDate[date] |->
                            ChangelogEntry(date, repo, repo.CommitsByDate[date][i])]
                    ELSE <<>>
       IN own \o DateMapAt(Tail(results), date)

DateMapKeys(results) ==
  { d \in UNION { DOMAIN results[i].CommitsByDate : i \in DOMAIN results } :
      DateMapAt(results, d) # <<>> }

\* sort.Strings
RECURSIVE SortStrings(_)
SortStrings(S) ==
  IF S = {} THEN <<>>
  ELSE LET m == CHOOSE x \in S : \A y \in S : ~StrLess(y, x)
       IN <<m>> \o SortStrings(S \ {m})

\* a less function that looks at the timestamp alone
EntryLessByDate(a, b) == StrLess(a.Commit.Date, b.Commit.Date)

\* the less function of the sort of a day's entries
EntryLess(a, b) ==
  IF a.Commit.Date = b.Commit.Date
    THEN IF a.RepoName = b.RepoName
           THEN StrLess(a.Commit.Hash, b.Commit.Hash)
           ELSE StrLess(a.RepoName, b.RepoName)
    ELSE StrLess(a.Commit.Date, b.Commit.Date)

Arrangements(n) == Orders(1..n)

\* what sort.Slice(entries, less) can leave
SortSliceEntries(entries) ==
  { [i \in DOMAIN entries |-> entries[q[i]]] : q \in
      { r \in Arrangements(Len(entries)) :
          \A i, j \in DOMAIN entries : i < j => ~EntryLess(entries[r[j]], entries[r[i]]) } }

\* type block; StartIdx and EndIdx count from 1 here
Block(s, e, name) == [StartIdx |-> s, EndIdx |-> e, RepoName |-> name, Duration |-> 0]

\* a loop that closes a block one entry late
RECURSIVE BlockLoopLate(_, _, _, _, _)
BlockLoopLate(entries, i, startIdx, currentRepo, blocks) ==
  IF i > Len(entries)
    THEN Append(blocks, Block(startIdx, Len(entries), currentRepo))
    ELSE IF entries[i].RepoName # currentRepo
      THEN BlockLoopLate(entries, i + 1, i, entries[i].RepoName,
                         Append(blocks, Block(startIdx, i, currentRepo)))
      ELSE BlockLoopLate(entries, i + 1, startIdx, currentRepo, blocks)

\* the loop that closes a block at every change of repository name
RECURSIVE BlockLoop(_, _, _, _, _)
BlockLoop(entries, i, startIdx, currentRepo, blocks) ==
  IF i > Len(entries)
    THEN Append(blocks, Block(startIdx, Len(entries), currentRepo))
    ELSE IF entries[i].RepoName # currentRepo
      THEN BlockLoop(entries, i + 1, i, entries[i].RepoName,
                     Append(blocks, Block(startIdx, i - 1, currentRepo)))
      ELSE BlockLoop(entries, i + 1, startIdx, currentRepo, blocks)

BuildBlocks(entries) ==
  IF entries = <<>> THEN <<>>
  ELSE BlockLoop(entries, 2, 1, entries[1].RepoName, <<>>)

LeapsBefore(y) == IF y = 0 THEN 0 ELSE ((y - 1) \div 4) - ((y - 1) \div 100) + ((y - 1) \div 400) + 1

RECURSIVE DaysBeforeMonth(_, _)
DaysBeforeMonth(y, m) == IF m = 1 THEN 0 ELSE DaysBeforeMonth(y, m - 1) + DaysIn(y, m - 1)

\* the days from the start of year 0 to the day of the wall clock t
DayNumber(t) ==
  365 * t.year + LeapsBefore(t.year) + DaysBeforeMonth(t.year, t.month) + (t.day - 1)

\* endT.Sub(startT), in seconds
Sub(endT, startT) == (DayNumber(endT) - DayNumber(startT)) * 86400 + (endT.sec - startT.sec)

\* a duration measured from the first entry of the day
BlockDurationFromDayStart(entries, b) ==
  LET startT == parseCommitLocalClock(entries[1].Commit.Date)
      endT == parseCommitLocalClock(entries[b.EndIdx].Commit.Date)
      d == Sub(endT, startT)
  IN IF startT.ok /\ endT.ok THEN (IF d < 0 THEN 0 - d ELSE d) ELSE 0

\* the duration of a block, in seconds
BlockDuration(entries, b) ==
  LET startT == parseCommitLocalClock(entries[b.StartIdx].Commit.Date)
      endT == parseCommitLocalClock(entries[b.EndIdx].Commit.Date)
      d == Sub(endT, startT)
  IN IF startT.ok /\ endT.ok THEN (IF d < 0 THEN 0 - d ELSE d) ELSE 0

WithDurations(entries, blocks) ==
  [i \in DOMAIN blocks |-> [blocks[i] EXCEPT !.Duration = BlockDuration(entries, blocks[i])]]

\* commitTime.Format("15:04"), empty when the local clock does not parse
TimeStr(iso) ==
  LET t == parseCommitLocalClock(iso)
  IN IF t.ok THEN Pad2(t.sec \div 3600) \o <<":">> \o Pad2((t.sec \div 60) % 60) ELSE <<>>

CommitLine(e) ==
  [line |-> "commit", time |-> TimeStr(e.Commit.Date), message |-> e.Commit.Message,
   hash |-> Prefix(e.Commit.Hash, 7)]

RECURSIVE BlockLines(_, _, _)
BlockLines(entries, blocks, b) ==
  IF b > Len(blocks) THEN <<>>
  ELSE << [line |-> "repo", name |-> blocks[b].RepoName] >>
       \o [i \in 1..(blocks[b].EndIdx - blocks[b].StartIdx + 1) |->
             CommitLine(entries[blocks[b].StartIdx + i - 1])]
       \o << [line |-> "blank"] >>
       \o BlockLines(entries, blocks, b + 1)

\* one rendered day: the header, the sorted entries and their blocks
Day(date, entries) ==
  LET blocks == WithDurations(entries, BuildBlocks(entries))
  IN [Date |-> date, Entries |-> entries, Blocks |-> blocks,
      Lines |-> << [line |-> "day", date |-> date] >> \o BlockLines(entries, blocks, 1)]

\* the renderings of the days listed in dates, one for every way the sorts
\* of the days can come out
RECURSIVE RenderDays(_, _)
RenderDays(results, dates) ==
  IF dates = <<>> THEN { <<>> }
  ELSE { <<Day(Head(dates), entries)>> \o rest :
           entries \in SortSliceEntries(DateMapAt(results, Head(dates))),
           rest \in RenderDays(results, Tail(dates)) }

RECURSIVE LinesOf(_)
LinesOf(days) == IF days = <<>> THEN <<>> ELSE Head(days).Lines \o LinesOf(Tail(days))

\* what printPretty(results) can print, with the days, entries and blocks it
\* went through
printPretty(results) ==
  IF DateMapKeys(results) = {}
    THEN { [Days |-> <<>>, Lines |-> << [line |-> "(no commits)"] >>] }
    ELSE { [Days |-> days, Lines |-> LinesOf(days)] :
             days \in RenderDays(results, SortStrings(DateMapKeys(results))) }

\* ------------------------------------------------------------------------
\* The aggregator run over one repository, several times
\* ------------------------------------------------------------------------
VARIABLES
  aggEmail,    \* the repository's configured user.email
  aggLogs,     \* the git log of each branch, in the order branches are listed
  aggRuns,     \* the commitsByDate of the last two runs
  prResults,   \* the results handed to printPretty
  prOut        \* what printPretty printed, once it has run

\* The command: the coordinator (Run) and one worker per repository.
VARIABLES
  flagJSON,       \* --json
  repos,          \* the repositories the walk found, in the order it found them
  cpc,            \* where the coordinator is
  pc,             \* where each worker is
  email,          \* worker: email
  branches,       \* worker: branches
  br,             \* worker: the index of the branch being fetched
  err,            \* worker: err, <<>> for nil
  commitMap,      \* worker: commitMap
  commitsByDate,  \* worker: commitsByDate
  sem,            \* the number of slots taken in sem
  mu,             \* the worker that holds mu, 0 when it is free
  wg,             \* the counter of wg
  errCh,          \* the errors buffered in errCh
  results,        \* results
  exit,           \* "running", "fatal" after log.Fatalf, "returned" after Run
  fatalMsg,       \* what log.Fatalf was called with
  stdout,         \* what was written to standard output
  logged,         \* the warnings written with log.Printf
  errLog          \* history: the errors sent to errCh, in the order of the sends

\* The fleet with its workers counted: how many workers are at each place of
\* the worker's code.  Workers differ in nothing the gate, the lock, the wait
\* group or the channel can see.
VARIABLES
  fleetN,         \* len(repos)
  fleetAt,        \* the number of workers at each place
  fleetCpc,       \* where the coordinator is
  fleetSem,       \* the number of slots taken in sem
  fleetMu,        \* whether mu is held
  fleetWg,        \* the counter of wg
  fleetErrCh,     \* the number of errors buffered in errCh
  fleetResults,   \* len(results)
  fleetExit       \* "running", "fatal" after log.Fatalf, "returned" after Run

aggVars == <<aggEmail, aggLogs, aggRuns>>

prVars == <<prResults, prOut>>

workerVars == <<pc, email, branches, br, err, commitMap, commitsByDate>>

sharedVars == <<sem, mu, wg, errCh, results, errLog>>

cmdVars ==
  <<flagJSON, repos, cpc, pc, email, branches, br, err, commitMap, commitsByDate,
    sem, mu, wg, errCh, results, exit, fatalMsg, stdout, logged, errLog>>

fleetVars ==
  <<fleetN, fleetAt, fleetCpc, fleetSem, fleetMu, fleetWg, fleetErrCh, fleetResults, fleetExit>>

vars == <<aggVars, prVars, cmdVars, fleetVars>>

\* the logs of up to n branches drawn from ls, listing up to budget commits
\* together
RECURSIVE LogSeqs(_, _, _)
LogSeqs(n, budget, ls) ==
  IF n = 0 THEN { <<>> }
  ELSE { <<>> } \cup
       UNION { { <<l>> \o s :
                   s \in LogSeqs(n - 1, budget - Len(l),
                                 { x \in ls : Len(x) <= budget - Len(l) }) } :
                 l \in { x \in ls : Len(x) <= budget } }

AggIdle == aggEmail = <<>> /\ aggLogs = <<>> /\ aggRuns = <<>>

PrIdle == prResults = <<>> /\ prOut = <<>>

Places == {"idle", "acquire", "email", "branches", "fetch", "bucket", "lock", "append",
           "release", "wgdone", "done"}

FleetIdle ==
  /\ fleetN = 0 /\ fleetAt = [p \in Places |-> 0] /\ fleetCpc = "idle"
  /\ fleetSem = 0 /\ fleetMu = FALSE /\ fleetWg = 0 /\ fleetErrCh = 0
  /\ fleetResults = 0 /\ fleetExit = "idle"

NoErr == [kind |-> "nil"]

NoFatal == [kind |-> "none"]

NoOutput == [kind |-> "none"]

CmdIdle ==
  /\ flagJSON = FALSE /\ repos = <<>> /\ cpc = "idle" /\ pc = <<>>
  /\ email = <<>> /\ branches = <<>> /\ br = <<>> /\ err = <<>>
  /\ commitMap = <<>> /\ commitsByDate = <<>>
  /\ sem = 0 /\ mu = 0 /\ wg = 0 /\ errCh = <<>> /\ results = <<>>
  /\ exit = "idle" /\ fatalMsg = NoFatal /\ stdout = NoOutput /\ logged = {}
  /\ errLog = <<>>

InitAgg ==
  /\ aggEmail \in {AddrLower, AddrUpper}
  /\ aggLogs \in LogSeqs(MaxBranches, MaxFetched, Logs)
  /\ aggRuns = <<>>
  /\ PrIdle
  /\ CmdIdle
  /\ FleetIdle

Aggregate ==
  /\ \E cbd \in RepoCommitsByDate(aggLogs, aggEmail) :
        aggRuns' = IF aggRuns = <<>> THEN <<cbd>> ELSE <<aggRuns[Len(aggRuns)], cbd>>
  /\ UNCHANGED <<aggEmail, aggLogs, prVars, cmdVars, fleetVars>>

NextAgg == Aggregate

SpecAgg == InitAgg /\ [][NextAgg]_vars

\* ------------------------------------------------------------------------
\* printPretty run over results of the aggregator
\* ------------------------------------------------------------------------
RepoPaths == {PathWProj, PathWLib, PathVProj}

\* the logs of the repositories rendered: among their commits is one written
\* with another offset on a day of the others
OwnLogs ==
  { LogOf(S) : S \in { T \in SUBSET (AllCommits \cup {OtherZone}) : Cardinality(T) <= MaxFetched } }

\* The results of the repositories whose user.email is a@x
OwnResults ==
  UNION { { RepoResult(path, cbd) : cbd \in RepoCommitsByDate(<<log>>, AddrLower) } :
            path \in RepoPaths, log \in OwnLogs }

RECURSIVE CommitCount(_, _)
CommitCount(cbd, keys) ==
  IF keys = {} THEN 0
  ELSE LET k == CHOOSE x \in keys : TRUE
       IN Len(cbd[k]) + CommitCount(cbd, keys \ {k})

Size(r) == CommitCount(r.CommitsByDate, DOMAIN r.CommitsByDate)

\* the results of up to n repositories drawn from rs, one result for a path,
\* holding up to budget commits together
RECURSIVE ResultSeqs(_, _, _)
ResultSeqs(n, budget, rs) ==
  IF n = 0 THEN { <<>> }
  ELSE { <<>> } \cup
       UNION { { <<r>> \o s :
                   s \in ResultSeqs(n - 1, budget - Size(r),
                                    { x \in rs : x.Path # r.Path /\ Size(x) <= budget - Size(r) }) } :
                 r \in { x \in rs : Size(x) <= budget } }

InitPretty ==
  /\ prResults \in ResultSeqs(MaxRepos, MaxFetched, OwnResults)
  /\ prOut = <<>>
  /\ AggIdle
  /\ CmdIdle
  /\ FleetIdle

PrintPretty ==
  /\ prOut = <<>>
  /\ \E out \in printPretty(prResults) : prOut' = <<out>>
  /\ UNCHANGED <<prResults, aggVars, cmdVars, fleetVars>>

NextPretty == PrintPretty

SpecPretty == InitPretty /\ [][NextPretty]_vars

\* ------------------------------------------------------------------------
\* The command
\* ------------------------------------------------------------------------
SemCap == 8    \* the capacity of sem

\* What git holds for each repository that can be found.
Git(path) ==
  CASE path = PathWProj ->
         [email |-> AddrLower, branches |-> <<"main", "feature/x">>,
          log |-> [b \in {"main", "feature/x"} |->
                     IF b = "main" THEN <<FixBug, AddTest>> ELSE <<FixBug, SameSecond>>]]
    [] path = PathWLib ->
         [email |-> AddrUpper, branches |-> <<"main">>,
          log |-> [b \in {"main"} |-> <<TheirWork>>]]
    [] path = PathVLib ->
         [email |-> AddrLower, branches |-> <<"main">>,
          log |-> [b \in {"main"} |-> <<NextDay, NoDate>>]]
    [] OTHER ->
         [email |-> AddrLower, branches |-> <<>>, log |-> EmptyMap]

\* filepath.Walk visits the tree in lexical order.
WalkOrder == <<PathVLib, PathVProj, PathWLib, PathWProj>>

RECURSIVE Pick(_, _, _)
Pick(s, S, i) ==
  IF i > Len(s) THEN <<>>
  ELSE (IF i \in S THEN <<s[i]>> ELSE <<>>) \o Pick(s, S, i + 1)

\* the lists of repositories a walk can find
Walks ==
  { Pick(WalkOrder, S, 1) :
      S \in { T \in SUBSET (1..Len(WalkOrder)) : Cardinality(T) <= NumRepos } }

IsSpace(c) == c \in {" ", "\n", "\t"}

\* strings.TrimSpace
RECURSIVE TrimSpace(_)
TrimSpace(s) ==
  IF s = <<>> THEN s
  ELSE IF IsSpace(s[1]) THEN TrimSpace(Tail(s))
  ELSE IF IsSpace(s[Len(s)]) THEN TrimSpace(SubSeq(s, 1, Len(s) - 1))
  ELSE s

\* What running git config user.email can give for a repository: a failure
\* (the key is not set), an empty value, or the configured address.
ConfigRuns(path) ==
  { [failed |-> TRUE, out |-> <<>>],
    [failed |-> FALSE, out |-> <<"\n">>],
    [failed |-> FALSE, out |-> Git(path).email \o <<"\n">>] }

getGitUserEmail(path, run) ==
  IF run.failed THEN [email |-> <<>>, err |-> [kind |-> "email not set", repo |-> path]]
  ELSE IF TrimSpace(run.out) = <<>>
    THEN [email |-> <<>>, err |-> [kind |-> "email empty", repo |-> path]]
    ELSE [email |-> TrimSpace(run.out), err |-> NoErr]

BranchesErr(path) == [kind |-> "unable to list branches", repo |-> path]

FetchErr(path, branch) == [kind |-> "error fetching commits", repo |-> path, branch |-> branch]

Workers == DOMAIN repos

Running == exit = "running"

InitCmd ==
  /\ flagJSON \in BOOLEAN
  /\ repos \in Walks
  /\ cpc = "spawn"
  /\ pc = [w \in DOMAIN repos |-> "idle"]
  /\ email = [w \in DOMAIN repos |-> <<>>]
  /\ branches = [w \in DOMAIN repos |-> <<>>]
  /\ br = [w \in DOMAIN repos |-> 0]
  /\ err = [w \in DOMAIN repos |-> NoErr]
  /\ commitMap = [w \in DOMAIN repos |-> EmptyMap]
  /\ commitsByDate = [w \in DOMAIN repos |-> EmptyMap]
  /\ sem = 0 /\ mu = 0 /\ wg = 0
  /\ errCh = <<>> /\ results = <<>> /\ errLog = <<>>
  /\ exit = "running" /\ fatalMsg = NoFatal /\ stdout = NoOutput /\ logged = {}

Init == InitCmd /\ AggIdle /\ PrIdle /\ FleetIdle

\* log.Fatalf: the message is written and the process exits at once
Fatalf(msg) == exit' = "fatal" /\ fatalMsg' = msg

\* ---- the coordinator ----

\* len(repos) == 0
NoRepos ==
  /\ Running /\ cpc = "spawn" /\ repos = <<>>
  /\ stdout' = [kind |-> "no git repos found"]
  /\ exit' = "returned" /\ cpc' = "done"
  /\ UNCHANGED <<aggVars, prVars, fleetVars, flagJSON, repos, workerVars, sharedVars, fatalMsg, logged>>

\* one round of the loop over repos: wg.Add(1) and the go statement
Spawn ==
  /\ Running /\ cpc = "spawn"
  /\ \E w \in Workers :
       /\ pc[w] = "idle"
       /\ \A v \in Workers : v < w => pc[v] # "idle"
       /\ wg' = wg + 1
       /\ pc' = [pc EXCEPT ![w] = "acquire"]
       /\ cpc' = IF w = Len(repos) THEN "wait" ELSE "spawn"
  /\ UNCHANGED <<aggVars, prVars, fleetVars, flagJSON, repos, email, branches, br, err, commitMap, commitsByDate,
                 sem, mu, errCh, results, errLog, exit, fatalMsg, stdout, logged>>

\* a coordinator that does not wait
WaitReturnsAtOnce == TRUE

\* wg.Wait() returns when the counter is zero
WaitReturns == wg = 0

Wait ==
  /\ Running /\ cpc = "wait"
  /\ WaitReturns
  /\ cpc' = "close"
  /\ UNCHANGED <<aggVars, prVars, fleetVars, flagJSON, repos, workerVars, sharedVars, exit, fatalMsg, stdout, logged>>

\* close(errCh)
Close ==
  /\ Running /\ cpc = "close"
  /\ cpc' = "drain"
  /\ UNCHANGED <<aggVars, prVars, fleetVars, flagJSON, repos, workerVars, sharedVars, exit, fatalMsg, stdout, logged>>

\* a drain that reports the error sent last
DrainLast ==
  /\ Running /\ cpc = "drain"
  /\ IF errCh # <<>>
       THEN /\ Fatalf([kind |-> "error", err |-> errCh[Len(errCh)]])
            /\ errCh' = SubSeq(errCh, 1, Len(errCh) - 1)
            /\ cpc' = cpc
       ELSE /\ cpc' = "output"
            /\ UNCHANGED <<errCh, exit, fatalMsg>>
  /\ UNCHANGED <<aggVars, prVars, fleetVars, flagJSON, repos, workerVars, sem, mu, wg, results, errLog, stdout, logged>>

\* a drain that looks at no error
DrainIgnoring ==
  /\ Running /\ cpc = "drain"
  /\ cpc' = "output"
  /\ UNCHANGED <<aggVars, prVars, fleetVars, flagJSON, repos, workerVars, sharedVars, exit, fatalMsg, stdout, logged>>

\* for err := range errCh: the first error received is fatal
Drain ==
  /\ Running /\ cpc = "drain"
  /\ IF errCh # <<>>
       THEN /\ Fatalf([kind |-> "error", err |-> Head(errCh)])
            /\ errCh' = Tail(errCh)
            /\ cpc' = cpc
       ELSE /\ cpc' = "output"
            /\ UNCHANGED <<errCh, exit, fatalMsg>>
  /\ UNCHANGED <<aggVars, prVars, fleetVars, flagJSON, repos, workerVars, sem, mu, wg, results, errLog, stdout, logged>>

\* json.NewEncoder(os.Stdout).Encode(results): the array in the order of the
\* slice, the keys of each map in ascending order
EncodeJSON(rs) ==
  [i \in DOMAIN rs |->
     [path |-> rs[i].Path, name |-> rs[i].Name,
      commits_by_date |->
        LET keys == SortStrings(DOMAIN rs[i].CommitsByDate)
        IN [k \in DOMAIN keys |-> <<keys[k], rs[i].CommitsByDate[keys[k]]>>]]]

Output ==
  /\ Running /\ cpc = "output"
  /\ IF flagJSON
       THEN stdout' = [kind |-> "json", value |-> EncodeJSON(results)]
       ELSE \E out \in printPretty(results) :
              stdout' = [kind |-> "pretty", Lines |-> out.Lines, Days |-> out.Days]
  /\ exit' = "returned" /\ cpc' = "done"
  /\ UNCHANGED <<aggVars, prVars, fleetVars, flagJSON, repos, workerVars, sharedVars, fatalMsg, logged>>

\* ---- the worker of repos[w] ----

\* sem <- struct{}{}
Acquire(w) ==
  /\ Running /\ pc[w] = "acquire"
  /\ sem < SemCap
  /\ sem' = sem + 1
  /\ pc' = [pc EXCEPT ![w] = "email"]
  /\ UNCHANGED <<aggVars, prVars, fleetVars, flagJSON, repos, cpc, email, branches, br, err, commitMap, commitsByDate,
                 mu, wg, errCh, results, errLog, exit, fatalMsg, stdout, logged>>

\* a worker that reports a missing identity like any other error
GetEmailDeferred(w) ==
  /\ Running /\ pc[w] = "email"
  /\ \E run \in ConfigRuns(repos[w]) :
       LET got == getGitUserEmail(repos[w], run)
       IN IF got.err # NoErr
            THEN /\ Len(errCh) < Len(repos)
                 /\ errCh' = Append(errCh, got.err)
                 /\ errLog' = Append(errLog, got.err)
                 /\ err' = [err EXCEPT ![w] = got.err]
                 /\ pc' = [pc EXCEPT ![w] = "release"]
                 /\ UNCHANGED email
            ELSE /\ email' = [email EXCEPT ![w] = got.email]
                 /\ pc' = [pc EXCEPT ![w] = "branches"]
                 /\ UNCHANGED <<err, errCh, errLog>>
  /\ UNCHANGED <<aggVars, prVars, fleetVars, flagJSON, repos, cpc, branches, br, commitMap, commitsByDate,
                 sem, mu, wg, results, exit, fatalMsg, stdout, logged>>

\* email, err := getGitUserEmail(repoPath), fatal when it fails
GetEmail(w) ==
  /\ Running /\ pc[w] = "email"
  /\ \E run \in ConfigRuns(repos[w]) :
       LET got == getGitUserEmail(repos[w], run)
       IN IF got.err # NoErr
            THEN /\ err' = [err EXCEPT ![w] = got.err]
                 /\ Fatalf([kind |-> "could not detect git user email", err |-> got.err])
                 /\ UNCHANGED <<email, pc>>
            ELSE /\ email' = [email EXCEPT ![w] = got.email]
                 /\ pc' = [pc EXCEPT ![w] = "branches"]
                 /\ UNCHANGED <<err, exit, fatalMsg>>
  /\ UNCHANGED <<aggVars, prVars, fleetVars, flagJSON, repos, cpc, branches, br, commitMap, commitsByDate,
                 sem, mu, wg, errCh, results, errLog, stdout, logged>>

\* a channel with room for one error less
ErrChCapShort == Len(repos) - 1

\* make(chan error, len(repos))
ErrChCap == Len(repos)

\* a return that does not give the slot back
SendAndLeave(w, e) ==
  /\ Len(errCh) < ErrChCap
  /\ errCh' = Append(errCh, e)
  /\ errLog' = Append(errLog, e)
  /\ err' = [err EXCEPT ![w] = e]
  /\ pc' = [pc EXCEPT ![w] = "wgdone"]

\* errCh <- e; return
SendAndReturn(w, e) ==
  /\ Len(errCh) < ErrChCap
  /\ errCh' = Append(errCh, e)
  /\ errLog' = Append(errLog, e)
  /\ err' = [err EXCEPT ![w] = e]
  /\ pc' = [pc EXCEPT ![w] = "release"]

\* branches, err := listBranches(repoPath)
ListBranches(w) ==
  /\ Running /\ pc[w] = "branches"
  /\ \/ /\ SendAndReturn(w, BranchesErr(repos[w]))
        /\ UNCHANGED <<branches, br>>
     \/ /\ branches' = [branches EXCEPT ![w] = Git(repos[w]).branches]
        /\ br' = [br EXCEPT ![w] = 1]
        /\ pc' = [pc EXCEPT ![w] = IF Git(repos[w]).branches = <<>> THEN "bucket" ELSE "fetch"]
        /\ UNCHANGED <<err, errCh, errLog>>
  /\ UNCHANGED <<aggVars, prVars, fleetVars, flagJSON, repos, cpc, email, commitMap, commitsByDate,
                 sem, mu, wg, results, exit, fatalMsg, stdout, logged>>

\* a worker that sends the error of a fetch and goes on with what it has
FetchKeepsPartial(w) ==
  /\ Running /\ pc[w] = "fetch"
  /\ LET branch == branches[w][br[w]]
     IN \/ /\ Len(errCh) < ErrChCap
           /\ errCh' = Append(errCh, FetchErr(repos[w], branch))
           /\ errLog' = Append(errLog, FetchErr(repos[w], branch))
           /\ err' = [err EXCEPT ![w] = FetchErr(repos[w], branch)]
           /\ pc' = [pc EXCEPT ![w] = "bucket"]
           /\ UNCHANGED <<br, commitMap>>
        \/ /\ commitMap' = [commitMap EXCEPT
                              ![w] = FoldCommits(@, Git(repos[w]).log[branch], email[w])]
           /\ br' = [br EXCEPT ![w] = @ + 1]
           /\ pc' = [pc EXCEPT ![w] = IF br[w] = Len(branches[w]) THEN "bucket" ELSE "fetch"]
           /\ UNCHANGED <<err, errCh, errLog>>
  /\ UNCHANGED <<aggVars, prVars, fleetVars, flagJSON, repos, cpc, email, branches, commitsByDate,
                 sem, mu, wg, results, exit, fatalMsg, stdout, logged>>

\* one round of the loop over branches: fetchCommitsForBranch and the fold
Fetch(w) ==
  /\ Running /\ pc[w] = "fetch"
  /\ LET branch == branches[w][br[w]]
     IN \/ /\ SendAndReturn(w, FetchErr(repos[w], branch))
           /\ UNCHANGED <<br, commitMap>>
        \/ /\ commitMap' = [commitMap EXCEPT
                              ![w] = FoldCommits(@, Git(repos[w]).log[branch], email[w])]
           /\ br' = [br EXCEPT ![w] = @ + 1]
           /\ pc' = [pc EXCEPT ![w] = IF br[w] = Len(branches[w]) THEN "bucket" ELSE "fetch"]
           /\ UNCHANGED <<err, errCh, errLog>>
  /\ UNCHANGED <<aggVars, prVars, fleetVars, flagJSON, repos, cpc, email, branches, commitsByDate,
                 sem, mu, wg, results, exit, fatalMsg, stdout, logged>>

\* the loop over commitMap that fills commitsByDate, and the sort of the buckets
Bucket(w) ==
  /\ Running /\ pc[w] = "bucket"
  /\ \E cbd \in CommitsByDateOf(commitMap[w]) :
       commitsByDate' = [commitsByDate EXCEPT ![w] = cbd]
  /\ logged' = logged \cup { [repo |-> repos[w], hash |-> c.Hash] : c \in Dropped(commitMap[w]) }
  /\ pc' = [pc EXCEPT ![w] = "lock"]
  /\ UNCHANGED <<aggVars, prVars, fleetVars, flagJSON, repos, cpc, email, branches, br, err, commitMap,
                 sem, mu, wg, errCh, results, errLog, exit, fatalMsg, stdout>>

\* a lock that lets every worker in
LockUnguarded(w) ==
  /\ Running /\ pc[w] = "lock"
  /\ mu' = w
  /\ pc' = [pc EXCEPT ![w] = "append"]
  /\ UNCHANGED <<aggVars, prVars, fleetVars, flagJSON, repos, cpc, email, branches, br, err, commitMap, commitsByDate,
                 sem, wg, errCh, results, errLog, exit, fatalMsg, stdout, logged>>

\* mu.Lock()
Lock(w) ==
  /\ Running /\ pc[w] = "lock"
  /\ mu = 0
  /\ mu' = w
  /\ pc' = [pc EXCEPT ![w] = "append"]
  /\ UNCHANGED <<aggVars, prVars, fleetVars, flagJSON, repos, cpc, email, branches, br, err, commitMap, commitsByDate,
                 sem, wg, errCh, results, errLog, exit, fatalMsg, stdout, logged>>

\* a worker that keeps a result without commits to itself
AppendResultIfAny(w) ==
  /\ Running /\ pc[w] = "append"
  /\ results' = IF commitsByDate[w] = EmptyMap THEN results
                ELSE Append(results, RepoResult(repos[w], commitsByDate[w]))
  /\ mu' = 0
  /\ pc' = [pc EXCEPT ![w] = "release"]
  /\ UNCHANGED <<aggVars, prVars, fleetVars, flagJSON, repos, cpc, email, branches, br, err, commitMap, commitsByDate,
                 sem, wg, errCh, errLog, exit, fatalMsg, stdout, logged>>

\* results = append(results, ...); mu.Unlock()
AppendResult(w) ==
  /\ Running /\ pc[w] = "append"
  /\ results' = Append(results, RepoResult(repos[w], commitsByDate[w]))
  /\ mu' = 0
  /\ pc' = [pc EXCEPT ![w] = "release"]
  /\ UNCHANGED <<aggVars, prVars, fleetVars, flagJSON, repos, cpc, email, branches, br, err, commitMap, commitsByDate,
                 sem, wg, errCh, errLog, exit, fatalMsg, stdout, logged>>

\* deferred: <-sem
Release(w) ==
  /\ Running /\ pc[w] = "release"
  /\ sem' = sem - 1
  /\ pc' = [pc EXCEPT ![w] = "wgdone"]
  /\ UNCHANGED <<aggVars, prVars, fleetVars, flagJSON, repos, cpc, email, branches, br, err, commitMap, commitsByDate,
                 mu, wg, errCh, results, errLog, exit, fatalMsg, stdout, logged>>

\* deferred: wg.Done()
WgDone(w) ==
  /\ Running /\ pc[w] = "wgdone"
  /\ wg' = wg - 1
  /\ pc' = [pc EXCEPT ![w] = "done"]
  /\ UNCHANGED <<aggVars, prVars, fleetVars, flagJSON, repos, cpc, email, branches, br, err, commitMap, commitsByDate,
                 sem, mu, errCh, results, errLog, exit, fatalMsg, stdout, logged>>

Next ==
  \/ NoRepos \/ Spawn \/ Wait \/ Close \/ Drain \/ Output
  \/ \E w \in Workers : Acquire(w)
  \/ \E w \in Workers : GetEmail(w)
  \/ \E w \in Workers : ListBranches(w)
  \/ \E w \in Workers : Fetch(w)
  \/ \E w \in Workers : Bucket(w)
  \/ \E w \in Workers : Lock(w)
  \/ \E w \in Workers : AppendResult(w)
  \/ \E w \in Workers : Release(w)
  \/ \E w \in Workers : WgDone(w)

Spec == Init /\ [][Next]_vars

\* ------------------------------------------------------------------------
\* The fleet, workers counted
\* ------------------------------------------------------------------------
otherVars == <<aggVars, prVars, cmdVars>>

InitFleet ==
  /\ fleetN \in 1..(SemCap + FleetExtra)
  /\ fleetAt = [p \in Places |-> IF p = "idle" THEN fleetN ELSE 0]
  /\ fleetCpc = "spawn"
  /\ fleetSem = 0 /\ fleetMu = FALSE /\ fleetWg = 0
  /\ fleetErrCh = 0 /\ fleetResults = 0
  /\ fleetExit = "running"
  /\ AggIdle /\ PrIdle /\ CmdIdle

FleetRunning == fleetExit = "running"

\* one of the workers at place p goes to place q
Move(p, q) ==
  /\ FleetRunning
  /\ fleetAt[p] > 0
  /\ fleetAt' = [fleetAt EXCEPT ![p] = @ - 1, ![q] = @ + 1]

\* wg.Add(1) and the go statement
FleetSpawn ==
  /\ fleetCpc = "spawn"
  /\ Move("idle", "acquire")
  /\ fleetWg' = fleetWg + 1
  /\ fleetCpc' = IF fleetAt["idle"] = 1 THEN "wait" ELSE "spawn"
  /\ UNCHANGED <<fleetN, fleetSem, fleetMu, fleetErrCh, fleetResults, fleetExit, otherVars>>

\* wg.Wait()
FleetWait ==
  /\ FleetRunning /\ fleetCpc = "wait"
  /\ fleetWg = 0
  /\ fleetCpc' = "close"
  /\ UNCHANGED <<fleetN, fleetAt, fleetSem, fleetMu, fleetWg, fleetErrCh, fleetResults,
                 fleetExit, otherVars>>

\* close(errCh)
FleetClose ==
  /\ FleetRunning /\ fleetCpc = "close"
  /\ fleetCpc' = "drain"
  /\ UNCHANGED <<fleetN, fleetAt, fleetSem, fleetMu, fleetWg, fleetErrCh, fleetResults,
                 fleetExit, otherVars>>

\* for err := range errCh
FleetDrain ==
  /\ FleetRunning /\ fleetCpc = "drain"
  /\ IF fleetErrCh > 0
       THEN fleetErrCh' = fleetErrCh - 1 /\ fleetExit' = "fatal" /\ fleetCpc' = fleetCpc
       ELSE fleetCpc' = "output" /\ UNCHANGED <<fleetErrCh, fleetExit>>
  /\ UNCHANGED <<fleetN, fleetAt, fleetSem, fleetMu, fleetWg, fleetResults, otherVars>>

\* the output and the return of Run
FleetOutput ==
  /\ FleetRunning /\ fleetCpc = "output"
  /\ fleetCpc' = "done" /\ fleetExit' = "returned"
  /\ UNCHANGED <<fleetN, fleetAt, fleetSem, fleetMu, fleetWg, fleetErrCh, fleetResults,
                 otherVars>>

\* a gate that admits every worker
SlotAlwaysFree == TRUE

\* a send on sem goes through while the buffer is not full
SlotFree == fleetSem < SemCap

\* sem <- struct{}{}
FleetAcquire ==
  /\ SlotFree
  /\ Move("acquire", "email")
  /\ fleetSem' = fleetSem + 1
  /\ UNCHANGED <<fleetN, fleetCpc, fleetMu, fleetWg, fleetErrCh, fleetResults, fleetExit,
                 otherVars>>

\* getGitUserEmail fails: log.Fatalf
FleetNoEmail ==
  /\ FleetRunning /\ fleetAt["email"] > 0
  /\ fleetExit' = "fatal"
  /\ UNCHANGED <<fleetN, fleetAt, fleetCpc, fleetSem, fleetMu, fleetWg, fleetErrCh,
                 fleetResults, otherVars>>

FleetGetEmail ==
  /\ Move("email", "branches")
  /\ UNCHANGED <<fleetN, fleetCpc, fleetSem, fleetMu, fleetWg, fleetErrCh, fleetResults,
                 fleetExit, otherVars>>

\* errCh <- err; return, from listBranches (p = "branches") or from a fetch
FleetSendErr(p) ==
  /\ fleetErrCh < fleetN
  /\ Move(p, "release")
  /\ fleetErrCh' = fleetErrCh + 1
  /\ UNCHANGED <<fleetN, fleetCpc, fleetSem, fleetMu, fleetWg, fleetResults, fleetExit,
                 otherVars>>

\* listBranches succeeds; q = "bucket" when there is no branch
FleetListBranches(q) ==
  /\ Move("branches", q)
  /\ UNCHANGED <<fleetN, fleetCpc, fleetSem, fleetMu, fleetWg, fleetErrCh, fleetResults,
                 fleetExit, otherVars>>

\* the fetch of the last branch succeeds (a fetch of an earlier branch leaves
\* the worker where it is)
FleetFetch ==
  /\ Move("fetch", "bucket")
  /\ UNCHANGED <<fleetN, fleetCpc, fleetSem, fleetMu, fleetWg, fleetErrCh, fleetResults,
                 fleetExit, otherVars>>

FleetBucket ==
  /\ Move("bucket", "lock")
  /\ UNCHANGED <<fleetN, fleetCpc, fleetSem, fleetMu, fleetWg, fleetErrCh, fleetResults,
                 fleetExit, otherVars>>

\* mu.Lock()
FleetLock ==
  /\ ~fleetMu
  /\ Move("lock", "append")
  /\ fleetMu' = TRUE
  /\ UNCHANGED <<fleetN, fleetCpc, fleetSem, fleetWg, fleetErrCh, fleetResults, fleetExit,
                 otherVars>>

\* results = append(results, ...); mu.Unlock()
FleetAppend ==
  /\ Move("append", "release")
  /\ fleetResults' = fleetResults + 1
  /\ fleetMu' = FALSE
  /\ UNCHANGED <<fleetN, fleetCpc, fleetSem, fleetWg, fleetErrCh, fleetExit, otherVars>>

\* a worker that returns with its slot
FleetReleaseKeeps ==
  /\ Move("release", "wgdone")
  /\ UNCHANGED <<fleetN, fleetCpc, fleetSem, fleetMu, fleetWg, fleetErrCh, fleetResults, fleetExit,
                 otherVars>>

\* deferred: <-sem
FleetRelease ==
  /\ Move("release", "wgdone")
  /\ fleetSem' = fleetSem - 1
  /\ UNCHANGED <<fleetN, fleetCpc, fleetMu, fleetWg, fleetErrCh, fleetResults, fleetExit,
                 otherVars>>

\* deferred: wg.Done()
FleetWgDone ==
  /\ Move("wgdone", "done")
  /\ fleetWg' = fleetWg - 1
  /\ UNCHANGED <<fleetN, fleetCpc, fleetSem, fleetMu, fleetErrCh, fleetResults, fleetExit,
                 otherVars>>

NextFleet ==
  \/ FleetSpawn \/ FleetWait \/ FleetClose \/ FleetDrain \/ FleetOutput
  \/ FleetAcquire \/ FleetNoEmail \/ FleetGetEmail
  \/ \E p \in {"branches", "fetch"} : FleetSendErr(p)
  \/ \E q \in {"fetch", "bucket"} : FleetListBranches(q)
  \/ FleetFetch \/ FleetBucket \/ FleetLock \/ FleetAppend \/ FleetRelease \/ FleetWgDone

SpecFleet == InitFleet /\ [][NextFleet]_vars

\* The fleet under a scheduler that does not stop while a goroutine can take
\* a step, every external call returning.
FairFleet == InitFleet /\ [][NextFleet]_vars /\ WF_vars(NextFleet)

\* ------------------------------------------------------------------------
\* Properties of the aggregator (SpecAgg)
\* ------------------------------------------------------------------------
\* the places of a commitsByDate map that hold the commit with hash h
Occurrences(cbd, h) ==
  { <<k, i>> \in (DOMAIN cbd) \X (1..Cardinality(AllCommits)) :
      i <= Len(cbd[k]) /\ cbd[k][i].Hash = h }

ResultCommits(cbd) == { cbd[k][i] : <<k, i>> \in UNION { {k} \X DOMAIN cbd[k] : k \in DOMAIN cbd } }

Fetched == { aggLogs[b][i] : <<b, i>> \in UNION { {b} \X DOMAIN aggLogs[b] : b \in DOMAIN aggLogs } }

BranchesWith(h) == { b \in DOMAIN aggLogs : \E i \in DOMAIN aggLogs[b] : aggLogs[b][i].Hash = h }

ToLower(s) == [i \in DOMAIN s |-> Fold(s[i])]

SameAddress(s, t) == ToLower(s) = ToLower(t)

\* C7: in every result of the aggregator no commit hash occurs at more than
\* one place of the day buckets, and a commit by the configured author that
\* is in the log of several branches (and has a day key) occurs exactly once.
C7_DedupAcrossBranches ==
  \A r \in DOMAIN aggRuns : \A h \in Hashes :
     /\ Cardinality(Occurrences(aggRuns[r], h)) <= 1
     /\ (\E c \in Fetched :
            /\ c.Hash = h
            /\ Cardinality(BranchesWith(h)) >= 2
            /\ SameAddress(c.AuthorEmail, aggEmail)
            /\ extractDateKey(c.Date) # <<>>)
          => Cardinality(Occurrences(aggRuns[r], h)) = 1

C7_Witness ==
  /\ aggRuns # <<>>
  /\ \E h \in Hashes :
        /\ Cardinality(BranchesWith(h)) >= 2
        /\ Cardinality(Occurrences(aggRuns[1], h)) = 1

\* C8: every commit of a result has an author email equal to the configured
\* one up to case, and every fetched commit with such an email and a day key
\* is in the result.
C8_IdentityFilter ==
  \A r \in DOMAIN aggRuns :
     /\ \A c \in ResultCommits(aggRuns[r]) :
           c \in Fetched /\ SameAddress(c.AuthorEmail, aggEmail)
     /\ \A c \in Fetched :
           (SameAddress(c.AuthorEmail, aggEmail) /\ extractDateKey(c.Date) # <<>>)
             => c \in ResultCommits(aggRuns[r])

C8_Witness ==
  /\ aggRuns # <<>>
  /\ \E c, d \in Fetched :
        /\ ~SameAddress(c.AuthorEmail, aggEmail)
        /\ d.AuthorEmail # aggEmail
        /\ d \in ResultCommits(aggRuns[1])
        /\ c \notin ResultCommits(aggRuns[1])

\* C10: two runs of the aggregator over the same repository give the same
\* day keys and, for each day, the same list of commits in the same order.
C10_IdenticalRuns ==
  \A r, s \in DOMAIN aggRuns : aggRuns[r] = aggRuns[s]

\* a string of the shape YYYY-MM-DD
LooksLikeDate(k) ==
  /\ Len(k) = 10
  /\ \A i \in {1, 2, 3, 4, 6, 7, 9, 10} : IsDigit(k[i])
  /\ k[5] = "-" /\ k[8] = "-"

\* the commits of the configured author that were fetched
Matching == { c \in Fetched : SameAddress(c.AuthorEmail, aggEmail) }

\* C11: every key of a result's commitsByDate has the shape YYYY-MM-DD; a
\* matching commit whose timestamp parses strictly is under the date parsed,
\* one whose timestamp does not parse is under its first 10 characters when
\* they have that shape, and is in no bucket otherwise.
C11_DayKeys ==
  \A r \in DOMAIN aggRuns :
     /\ \A k \in DOMAIN aggRuns[r] : LooksLikeDate(k)
     /\ \A c \in Matching :
          LET places == Occurrences(aggRuns[r], c.Hash)
          IN IF ParseRFC3339(c.Date).ok
               THEN \A pl \in places : pl[1] = FormatDate(ParseRFC3339(c.Date))
               ELSE IF Len(c.Date) >= 10 /\ LooksLikeDate(Prefix(c.Date, 10))
                 THEN \A pl \in places : pl[1] = Prefix(c.Date, 10)
                 ELSE places = {}

\* C12: in every result of the aggregator, whatever the order of the branches
\* and of the traversal of commitMap, no commit of a day bucket has a
\* timestamp that is, as a string, less than the timestamp of a commit before
\* it in the bucket.
C12_BucketsAscending ==
  \A r \in DOMAIN aggRuns : \A k \in DOMAIN aggRuns[r] :
     \A i, j \in DOMAIN aggRuns[r][k] :
        i < j => ~StrLess(aggRuns[r][k][j].Date, aggRuns[r][k][i].Date)

\* a bucket of two commits with different timestamps, the later one fetched
\* from the branch listed first
C12_Witness ==
  /\ aggRuns # <<>>
  /\ Len(aggLogs) = 2
  /\ \E k \in DOMAIN aggRuns[1] :
        /\ Len(aggRuns[1][k]) >= 2
        /\ StrLess(aggRuns[1][k][1].Date, aggRuns[1][k][2].Date)
        /\ \E i \in DOMAIN aggLogs[1] : aggLogs[1][i] = aggRuns[1][k][2]
        /\ \E i \in DOMAIN aggLogs[2] : aggLogs[2][i] = aggRuns[1][k][1]

\* ------------------------------------------------------------------------
\* Properties of the command (Spec)
\* ------------------------------------------------------------------------
Emitted == stdout.kind \in {"json", "pretty"}

AllDone == \A w \in Workers : pc[w] = "done"

IdentityFatal == exit = "fatal" /\ fatalMsg.kind = "could not detect git user email"

ErrorFatal == exit = "fatal" /\ fatalMsg.kind = "error"

\* C1: JSON or the changelog is written only when every repository found has
\* exactly one result in results, no worker hit a failure and no error was
\* sent; once a worker has hit a failure, nothing is written and Run does not
\* return normally.
C1_AllOrNothing ==
  /\ Emitted =>
       /\ \A w \in Workers :
            Cardinality({ j \in DOMAIN results : results[j].Path = repos[w] }) = 1
       /\ Len(results) = Len(repos)
       /\ errLog = <<>>
       /\ \A w \in Workers : err[w] = NoErr
  /\ (\E w \in Workers : err[w] # NoErr) => (stdout = NoOutput /\ exit # "returned")

C1_Witness == Emitted /\ Len(repos) >= 2

\* C2: the coordinator is past wg.Wait() (closing errCh, reading it, writing
\* the output, returning) only when every worker it started has finished.
C2_Barrier ==
  (cpc \in {"close", "drain", "output", "done"} /\ repos # <<>>) => AllDone

C2_Witness == cpc = "drain" /\ errCh # <<>> /\ Len(repos) >= 2 /\ results # <<>>

\* C4: a worker leaves the identity lookup either with a non-empty email, or
\* with the whole process ended by that very step: no other worker moves,
\* nothing is sent to errCh, and nothing is, or will be, written to stdout.
C4_IdentityAbort ==
  /\ [][\A w \in Workers :
          (pc[w] = "email" /\ (pc'[w] # "email" \/ err'[w] # NoErr)) =>
             IF err'[w] = NoErr
               THEN pc'[w] = "branches" /\ email'[w] # <<>> /\ exit' = "running"
               ELSE /\ exit' = "fatal" /\ fatalMsg'.err = err'[w]
                    /\ errCh' = errCh /\ errLog' = errLog
                    /\ pc' = pc /\ cpc' = cpc /\ results' = results]_vars
  /\ [](IdentityFatal => stdout = NoOutput)
  /\ [][IdentityFatal => UNCHANGED vars]_vars

C4_Witness ==
  /\ IdentityFatal
  /\ results # <<>>
  /\ \E v \in Workers : pc[v] \in {"branches", "fetch", "bucket", "lock"}

\* C5: a worker that fails to list branches or to fetch sends its error and
\* returns, and no other worker is touched; the error that ends the command
\* is reported only when all workers are done, it is the one sent first, and
\* once an error was sent nothing is written to stdout.
C5_DeferredErrors ==
  /\ [][\A w \in Workers :
          (pc[w] \in {"branches", "fetch"} /\ err[w] = NoErr /\ err'[w] # NoErr) =>
             /\ errCh' = Append(errCh, err'[w])
             /\ errLog' = Append(errLog, err'[w])
             /\ exit' = "running"
             /\ pc'[w] = "release"
             /\ \A v \in Workers \ {w} : pc'[v] = pc[v]]_vars
  /\ [](ErrorFatal => (AllDone /\ errLog # <<>> /\ fatalMsg.err = errLog[1]))
  /\ [](errLog # <<>> => (stdout = NoOutput /\ exit # "returned"))
  /\ [][(cpc = "drain" /\ errCh # <<>>) => ErrorFatal']_vars

C5_Witness == ErrorFatal /\ Len(errLog) >= 2

\* results, put in the order the walk found the repositories in
InWalkOrder ==
  [i \in DOMAIN results |-> CHOOSE r \in { results[j] : j \in DOMAIN results } :
                              r.Path = repos[i]]

\* C6: what is written, as JSON or as the changelog, is what is written for
\* the same results whatever the order the workers appended them in.
C6_OrderIndependent ==
  /\ stdout.kind = "json" => stdout.value = EncodeJSON(InWalkOrder)
  /\ stdout.kind = "pretty" => \A out \in printPretty(InWalkOrder) : out.Lines = stdout.Lines

\* ------------------------------------------------------------------------
\* Properties of the counted fleet (SpecFleet)
\* ------------------------------------------------------------------------
\* the workers between the send on sem and the receive from it
Holding ==
  fleetAt["email"] + fleetAt["branches"] + fleetAt["fetch"] + fleetAt["bucket"]
  + fleetAt["lock"] + fleetAt["append"] + fleetAt["release"]

\* C3: at most 8 workers are between taking and giving back a slot, they are
\* as many as the slots taken, and every other worker is not started, waits
\* for a slot, or has given its slot back.
C3_BoundedParallelism ==
  /\ Holding <= 8
  /\ Holding = fleetSem
  /\ fleetAt["idle"] + fleetAt["acquire"] + Holding + fleetAt["wgdone"] + fleetAt["done"]
       = fleetN

C3_Witness == Holding = 8 /\ fleetAt["acquire"] >= 1

\* log.Fatalf of a worker whose identity lookup failed (the coordinator's own
\* log.Fatalf is called in the drain)
FleetIdentityFatal == fleetExit = "fatal" /\ fleetCpc # "drain"

FleetPastBarrier == fleetCpc \in {"close", "drain", "output", "done"}

\* every worker has got a slot and finished, no slot, lock or count is left
\* taken, and the coordinator is past wg.Wait()
FleetFinished ==
  /\ fleetAt["done"] = fleetN
  /\ fleetSem = 0 /\ fleetWg = 0 /\ ~fleetMu
  /\ FleetPastBarrier

\* C20: for 1 to 9 repositories, the command eventually ends, by returning
\* after the output or by log.Fatalf, and unless an identity lookup failed,
\* every worker has then got a slot and finished and the coordinator has
\* passed wg.Wait().
C20_FleetProgress ==
  <>(/\ fleetExit \in {"returned", "fatal"}
     /\ FleetIdentityFatal \/ FleetFinished
     /\ fleetExit = "returned" => (fleetCpc = "done" /\ fleetErrCh = 0 /\ fleetResults = fleetN))

\* Run has returned after more workers than slots have all finished
C20_Witness ==
  /\ fleetN > SemCap
  /\ fleetAt["done"] = fleetN
  /\ fleetExit = "returned"

\* ------------------------------------------------------------------------
\* Properties of printPretty (SpecPretty)
\* ------------------------------------------------------------------------
Rendered == IF prOut = <<>> THEN <<>> ELSE prOut[1].Days

BlockEntries(day, b) == { day.Entries[i] : i \in day.Blocks[b].StartIdx..day.Blocks[b].EndIdx }

\* the blocks of a day cover its entries, in order, each entry once
BlocksPartition(day) ==
  /\ day.Blocks # <<>>
  /\ day.Blocks[1].StartIdx = 1
  /\ day.Blocks[Len(day.Blocks)].EndIdx = Len(day.Entries)
  /\ \A b \in DOMAIN day.Blocks : day.Blocks[b].StartIdx <= day.Blocks[b].EndIdx
  /\ \A b \in 1..(Len(day.Blocks) - 1) : day.Blocks[b + 1].StartIdx = day.Blocks[b].EndIdx + 1

\* C9, as stated: the entries of a block are of one repository and one day,
\* adjacent blocks are of different repositories, and the blocks of a day
\* partition its entries.
C9_BlocksOfOneRepository ==
  \A d \in DOMAIN Rendered :
     /\ BlocksPartition(Rendered[d])
     /\ \A b \in DOMAIN Rendered[d].Blocks :
          \A e, f \in BlockEntries(Rendered[d], b) :
             e.RepoPath = f.RepoPath /\ e.DateKey = f.DateKey
     /\ \A b \in 1..(Len(Rendered[d].Blocks) - 1) :
          \A e \in BlockEntries(Rendered[d], b), f \in BlockEntries(Rendered[d], b + 1) :
             e.RepoPath # f.RepoPath

\* C9, amended: the entries of a block have one repository name, the block's,
\* and one day, the day they are rendered under and the day of their own
\* timestamp; adjacent blocks have different names; the blocks of a day
\* partition its entries.
C9_BlocksOfOneName ==
  \A d \in DOMAIN Rendered :
     /\ BlocksPartition(Rendered[d])
     /\ \A b \in DOMAIN Rendered[d].Blocks :
          \A e \in BlockEntries(Rendered[d], b) :
             /\ e.RepoName = Rendered[d].Blocks[b].RepoName
             /\ e.DateKey = Rendered[d].Date
             /\ Prefix(e.Commit.Date, 10) = Rendered[d].Date
     /\ \A b \in 1..(Len(Rendered[d].Blocks) - 1) :
          Rendered[d].Blocks[b].RepoName # Rendered[d].Blocks[b + 1].RepoName

C9_Witness ==
  \E d \in DOMAIN Rendered :
     /\ Len(Rendered[d].Blocks) >= 2
     /\ \E b \in DOMAIN Rendered[d].Blocks :
          Rendered[d].Blocks[b].EndIdx > Rendered[d].Blocks[b].StartIdx

\* the clock a timestamp shows, its offset left aside: the second of the day
\* written at characters 12 to 19; -1 when the timestamp does not have the
\* shape YYYY-MM-DDTHH:MM:SS in its first 19 characters
ClockOf(iso) ==
  IF Len(iso) >= 19 /\ ParseLocal19(Prefix(iso, 19)).ok
    THEN 3600 * Atoi(iso, 12, 13) + 60 * Atoi(iso, 15, 16) + Atoi(iso, 18, 19)
    ELSE -1

Abs(n) == IF n < 0 THEN 0 - n ELSE n

FirstOf(day, b) == day.Entries[day.Blocks[b].StartIdx].Commit.Date

LastOf(day, b) == day.Entries[day.Blocks[b].EndIdx].Commit.Date

\* C13: the duration of every block is the distance between the clocks its
\* last and its first entry show (both are of the block's day), it is never
\* negative, it is zero for a block of one commit and zero when the clock of
\* either end cannot be read; a day holding just the commits of 09:00:00+00:00
\* and 09:45:00+00:00 of one repository has one block of 45 minutes.
C13_BlockDuration ==
  \A d \in DOMAIN Rendered :
     /\ \A b \in DOMAIN Rendered[d].Blocks :
          LET first == ClockOf(FirstOf(Rendered[d], b))
              last == ClockOf(LastOf(Rendered[d], b))
              dur == Rendered[d].Blocks[b].Duration
          IN /\ dur >= 0
             /\ Rendered[d].Blocks[b].StartIdx = Rendered[d].Blocks[b].EndIdx => dur = 0
             /\ (first = -1 \/ last = -1) => dur = 0
             /\ (first # -1 /\ last # -1) => dur = Abs(last - first)
     /\ ({ e.Commit : e \in { Rendered[d].Entries[i] : i \in DOMAIN Rendered[d].Entries } }
           = {FixBug, AddTest}
         /\ Len(Rendered[d].Entries) = 2
         /\ Rendered[d].Entries[1].RepoPath = Rendered[d].Entries[2].RepoPath)
          => /\ Len(Rendered[d].Blocks) = 1
             /\ Rendered[d].Blocks[1].Duration = 45 * 60

\* a block of 45 minutes next to a block of another repository
C13_Witness ==
  \E d \in DOMAIN Rendered :
     /\ Len(Rendered[d].Blocks) = 2
     /\ \E b \in DOMAIN Rendered[d].Blocks :
          /\ FirstOf(Rendered[d], b) = Date0900
          /\ LastOf(Rendered[d], b) = Date0945
          /\ Rendered[d].Blocks[b].Duration = 45 * 60

\* ------------------------------------------------------------------------
\* More properties of the command (Spec)
\* ------------------------------------------------------------------------
\* the commits git holds for the repository at path, over all its branches
Held(path) ==
  UNION { { Git(path).log[b][i] : i \in DOMAIN Git(path).log[b] } : b \in DOMAIN Git(path).log }

\* no commit of the repository is by its configured author
NothingOwn(path) == \A c \in Held(path) : ~SameAddress(c.AuthorEmail, Git(path).email)

\* worker w is past its append, or has returned before it
Returning(w) == pc[w] \in {"release", "wgdone", "done"}

ResultsOf(w) == { j \in DOMAIN results : results[j].Path = repos[w] }

ErrorsOf(w) == { j \in DOMAIN errLog : errLog[j].repo = repos[w] }

\* C14: a worker whose repository holds no commit by its configured author
\* (it may have no branch at all) and whose git calls succeeded has appended
\* one result, with an empty commitsByDate, and has sent no error; the JSON
\* written has one element for the repository, with an empty mapping.
C14_EmptyIsResult ==
  \A w \in Workers :
     (NothingOwn(repos[w]) /\ Returning(w) /\ err[w] = NoErr) =>
        /\ Cardinality(ResultsOf(w)) = 1
        /\ \A j \in ResultsOf(w) : results[j].CommitsByDate = EmptyMap
        /\ ErrorsOf(w) = {}
        /\ stdout.kind = "json" =>
             /\ Cardinality({ i \in DOMAIN stdout.value : stdout.value[i].path = repos[w] }) = 1
             /\ \A i \in DOMAIN stdout.value :
                   stdout.value[i].path = repos[w] => stdout.value[i].commits_by_date = <<>>

\* JSON written for a repository without branches, one with a branch but no
\* commit of its author, and one with commits
C14_Witness ==
  /\ stdout.kind = "json"
  /\ \E u, v, w \in Workers :
        /\ NothingOwn(repos[u]) /\ branches[u] = <<>>
        /\ NothingOwn(repos[v]) /\ branches[v] # <<>>
        /\ ~NothingOwn(repos[w])

\* the workers between the send on sem and the receive from it
SlotHolders == { w \in Workers : pc[w] \in {"email", "branches", "fetch", "bucket", "lock", "append", "release"} }

\* a slot is given back by a worker on its way out, one slot at a time, and
\* the worker goes on to wg.Done()
ReleasedOnce ==
  /\ \A w \in Workers :
        (pc[w] = "release" /\ pc'[w] # "release") => (sem' = sem - 1 /\ pc'[w] = "wgdone")
  /\ sem' # sem =>
        \E w \in Workers :
           \/ pc[w] = "acquire" /\ pc'[w] = "email" /\ sem' = sem + 1
           \/ pc[w] = "release" /\ pc'[w] = "wgdone" /\ sem' = sem - 1

\* C15, as stated: the slots taken are those of the workers between acquire
\* and release, a slot is released once, a worker that failed (identity,
\* branches or fetch) is at or past its release, and when all workers are
\* done, or the process is over, no slot is taken.
C15_ReleasedOnEveryPath ==
  /\ [](sem = Cardinality(SlotHolders))
  /\ [][ReleasedOnce]_vars
  /\ [](\A w \in Workers : err[w] # NoErr => Returning(w))
  /\ []((AllDone \/ exit # "running") => sem = 0)

\* C15, amended: as above for the workers that return (success, branches or
\* fetch failure); a worker whose identity lookup failed has ended the process
\* at that step, with its slot still taken.
C15_ReleasedOnReturn ==
  /\ [](sem = Cardinality(SlotHolders))
  /\ [][ReleasedOnce]_vars
  /\ [](\A w \in Workers :
          err[w] # NoErr =>
             \/ Returning(w)
             \/ pc[w] = "email" /\ IdentityFatal /\ fatalMsg.err = err[w] /\ sem >= 1)
  /\ [](AllDone => sem = 0)
  /\ []((exit # "running" /\ ~IdentityFatal) => sem = 0)

\* all workers are done, one after a branches failure, one after a fetch
\* failure and one after its append
C15_Witness ==
  /\ AllDone /\ sem = 0
  /\ \E j \in DOMAIN errLog : errLog[j].kind = "unable to list branches"
  /\ \E j \in DOMAIN errLog : errLog[j].kind = "error fetching commits"
  /\ results # <<>>

\* the workers that may still send on errCh
MaySend == { w \in Workers : pc[w] \in {"idle", "acquire", "email", "branches", "fetch"} }

\* C16: errCh has room for one error of every repository and a worker sends
\* at most one, so wherever a worker may send, the buffer is not full and
\* the send goes through; errors are taken from errCh only by the coordinator
\* and only when all workers are done.
C16_SendNeverBlocks ==
  /\ [](\A w \in Workers : Cardinality(ErrorsOf(w)) <= 1)
  /\ [](Len(errCh) + Cardinality(MaySend) <= Len(repos))
  /\ [](\A w \in Workers : pc[w] \in {"branches", "fetch"} => Len(errCh) < ErrChCap)
  /\ [](ErrChCap = Len(repos))
  /\ [][\A w \in Workers :
          (pc[w] \in {"branches", "fetch"} /\ pc'[w] = "release") =>
             errCh' = Append(errCh, err'[w])]_vars
  /\ [][errCh' # errCh =>
          \/ \E e \in { err'[w] : w \in Workers } : errCh' = Append(errCh, e)
          \/ errCh' = Tail(errCh) /\ AllDone /\ cpc = "drain"]_vars

\* every worker has sent an error: the buffer is full
C16_Witness == Len(errCh) = Len(repos) /\ Len(repos) >= 3 /\ cpc = "drain"

\* the workers between mu.Lock() and mu.Unlock()
InCritical == { w \in Workers : pc[w] = "append" }

PastBarrier == cpc \in {"close", "drain", "output", "done"} /\ repos # <<>>

\* C17: at most one worker is between mu.Lock() and mu.Unlock(), and it is
\* the one that holds mu; results changes only by the append of that worker,
\* which adds the worker's own commitsByDate under its own path; past the
\* barrier results holds one result of every worker without error, none of a
\* worker with an error, and nothing else.
C17_ResultsIntegrity ==
  /\ [](Cardinality(InCritical) <= 1)
  /\ [](\A w \in Workers : mu = w <=> w \in InCritical)
  /\ [][results' # results =>
          \E w \in Workers :
             /\ mu = w /\ pc[w] = "append" /\ pc'[w] = "release"
             /\ ResultsOf(w) = {}
             /\ results' = Append(results, RepoResult(repos[w], commitsByDate[w]))]_vars
  /\ [](\A w \in Workers : Cardinality(ResultsOf(w)) <= 1)
  /\ [](PastBarrier =>
          /\ \A w \in Workers :
                Cardinality(ResultsOf(w)) = (IF err[w] = NoErr THEN 1 ELSE 0)
          /\ \A w \in Workers : \A j \in ResultsOf(w) :
                results[j] = RepoResult(repos[w], commitsByDate[w])
          /\ Len(results) = Cardinality({ w \in Workers : err[w] = NoErr }))

\* past the barrier with two results and the error of a third worker, a
\* worker having waited for mu while another held it
C17_Witness == PastBarrier /\ Len(results) = 2 /\ Len(errLog) = 1

\* C19: a worker that has sent an error has no result in results, also when
\* the error is that of a fetch after commits of earlier branches were
\* folded; a worker that has returned has either one result and no error, or
\* one error and no result; before that it has no result.
C19_ResultOrError ==
  \A w \in Workers :
     /\ ErrorsOf(w) # {} => ResultsOf(w) = {}
     /\ (err[w].kind = "error fetching commits") =>
           (ResultsOf(w) = {} /\ Returning(w) /\ ErrorsOf(w) # {})
     /\ Returning(w) =>
           \/ Cardinality(ResultsOf(w)) = 1 /\ ErrorsOf(w) = {} /\ err[w] = NoErr
           \/ Cardinality(ErrorsOf(w)) = 1 /\ ResultsOf(w) = {} /\ err[w] # NoErr
     /\ ~Returning(w) => (ResultsOf(w) = {} /\ ErrorsOf(w) = {})

\* a worker is done after the fetch of its second branch failed, commits of
\* the first branch in its commitMap, while another worker has appended
C19_Witness ==
  \E w \in Workers :
     /\ pc[w] = "done"
     /\ err[w].kind = "error fetching commits"
     /\ br[w] = 2
     /\ commitMap[w] # EmptyMap
     /\ results # <<>>

\* ------------------------------------------------------------------------
\* More properties of printPretty (SpecPretty)
\* ------------------------------------------------------------------------
\* the (day, repository name, hash) triples of a rendering, in its order
RECURSIVE TriplesOf(_)
TriplesOf(days) ==
  IF days = <<>> THEN <<>>
  ELSE [i \in DOMAIN Head(days).Entries |->
          <<Head(days).Date, Head(days).Entries[i].RepoName, Head(days).Entries[i].Commit.Hash>>]
       \o TriplesOf(Tail(days))

\* prResults in another order
Reordered(q) == [i \in DOMAIN prResults |-> prResults[q[i]]]

\* the (path, commit) pairs the results hold under day key k
HeldUnder(k) ==
  UNION { { <<prResults[r].Path, prResults[r].CommitsByDate[k][i]>> :
              i \in DOMAIN prResults[r].CommitsByDate[k] } :
          r \in { x \in DOMAIN prResults : k \in DOMAIN prResults[x].CommitsByDate } }

\* a is not after b in the order (timestamp, repository name, hash)
InOrder(a, b) ==
  \/ StrLess(a.Commit.Date, b.Commit.Date)
  \/ /\ a.Commit.Date = b.Commit.Date
     /\ \/ StrLess(a.RepoName, b.RepoName)
        \/ a.RepoName = b.RepoName /\ ~StrLess(b.Commit.Hash, a.Commit.Hash)

\* C18: the days rendered are the day keys of the results, each once, in
\* ascending order; the entries of a day are the commits held under it, each
\* once, ordered by timestamp string, then repository name, then hash; the
\* (day, repository name, hash) triples rendered are the same for the
\* results in any other order.
C18_PrettyOrdering ==
  prOut # <<>> =>
     /\ \A d, e \in DOMAIN Rendered : d < e => StrLess(Rendered[d].Date, Rendered[e].Date)
     /\ { Rendered[d].Date : d \in DOMAIN Rendered } = DateMapKeys(prResults)
     /\ \A d \in DOMAIN Rendered :
          /\ \A i, j \in DOMAIN Rendered[d].Entries :
                i < j => InOrder(Rendered[d].Entries[i], Rendered[d].Entries[j])
          /\ { <<Rendered[d].Entries[i].RepoPath, Rendered[d].Entries[i].Commit>> :
                 i \in DOMAIN Rendered[d].Entries } = HeldUnder(Rendered[d].Date)
          /\ Len(Rendered[d].Entries) = Cardinality(HeldUnder(Rendered[d].Date))
     /\ \A q \in Arrangements(Len(prResults)) :
          \A out \in printPretty(Reordered(q)) : TriplesOf(out.Days) = TriplesOf(Rendered)

\* two days rendered, the first with two commits of one timestamp from
\* repositories of different names, rendered in the reverse of the order of
\* the results
C18_Witness ==
  /\ Len(Rendered) >= 2
  /\ Len(prResults) = 2
  /\ Len(Rendered[1].Entries) = 2
  /\ Rendered[1].Entries[1].RepoPath = prResults[2].Path
  /\ Rendered[1].Entries[2].RepoPath = prResults[1].Path
  /\ Rendered[1].Entries[1].Commit.Date = Rendered[1].Entries[2].Commit.Date
  /\ Rendered[1].Entries[1].RepoName # Rendered[1].Entries[2].RepoName

====
